---- MODULE Spec2Model ----
(***************************************************************************)
(* A model of the vmem resource allocator of src/src/vmem.c (hosted        *)
(* build: seg_alloc/seg_free are malloc/free, ASSERT is assert).  The      *)
(* segment pool of the kernel build (free_segs, nfreesegs) is modelled on  *)
(* its own, under SpecPool.                                                *)
(*                                                                         *)
(* Machine words are WordBits wide instead of 64; every uintptr_t/size_t   *)
(* computation is reduced modulo 2^WordBits, and FREELISTS_N, which the    *)
(* source assumes equal to the word width, is WordBits.                    *)
(***************************************************************************)
EXTENDS Integers, Sequences, FiniteSets, TLC

\* ------------------------------------------------------------------ bounds
WordBits == 6
MaxSegs == 6
MaxRefills == 2
\* ARR_SIZE(static_segs), 128 in the source, and ARR_SIZE(segblock->segs),
\* 64 in the source, scaled down
StaticSegs == 16
SegblockSegs == 8

\* --------------------------------------------------------------- constants
FREELISTS_N == WordBits
HASHTABLES_N == 16
MurmurC1 == 36045
MurmurC2 == 60499
MurmurShift == 33
NFREESEGS_MIN == 8

VM_INSTANTFIT == "VM_INSTANTFIT"
VM_BESTFIT == "VM_BESTFIT"
VM_BOOTSTRAP == "VM_BOOTSTRAP"

SEGMENT_ALLOCATED == "allocated"
SEGMENT_FREE == "free"
SEGMENT_SPAN == "span"

\* ------------------------------------------------------------- input sets
CreateBases == {0}
CreateSizes == {0, 8}
Quanta == {1, 2}
AddBases == {0, 4, 8}
AddSizes == {2, 4, 6}
XSizes == {2, 3}
XAligns == {0, 4}
XPhases == {0, 1, 5}
XMinAddrs == {0, 4}
XMaxAddrs == {2, 16}
XFits == {{VM_INSTANTFIT}, {VM_BESTFIT}}
\* the vmem_xalloc calls made: every size, align, phase and fit policy
\* without address window; every size, align, minaddr and fit policy without
\* phase; each maxaddr with size and fit policy; a call with nocross; a call
\* without fit policy
XCalls ==
    [size : XSizes, align : XAligns, phase : XPhases, nocross : {0},
     minaddr : {0}, maxaddr : {0}, vmflag : XFits]
    \cup [size : XSizes, align : XAligns, phase : {0}, nocross : {0},
          minaddr : XMinAddrs, maxaddr : {0}, vmflag : XFits]
    \cup [size : XSizes, align : {0}, phase : {0}, nocross : {0},
          minaddr : {0}, maxaddr : XMaxAddrs, vmflag : XFits]
    \cup [size : {2}, align : {0}, phase : {0}, nocross : {4},
          minaddr : {0}, maxaddr : {0}, vmflag : {{VM_INSTANTFIT}}]
    \cup [size : {2}, align : {0}, phase : {0}, nocross : {0},
          minaddr : {0}, maxaddr : {0}, vmflag : {{}}]
\* the arguments of the vmem_create calls made after the first
NewBases == {0, 1, 4, 8}
NewSizes == {0, 1, 2, 3, 4, 6, 8}
NewSources == {FALSE, TRUE}
\* the calls made concurrently: vmem_xalloc(vmp, size, 0, 0, 0, 0, 0, vmflag)
TSizes == {2, 3}
TFlags == {{VM_INSTANTFIT}, {VM_BESTFIT}}

\* ------------------------------------------------------- word arithmetic
RECURSIVE Pow2(_)
Pow2(n) == IF n = 0 THEN 1 ELSE 2 * Pow2(n - 1)

Word == Pow2(WordBits)

\* unsigned wrap-around of uintptr_t / size_t arithmetic
Wrap(x) == x % Word

RECURSIVE BitAnd(_, _)
BitAnd(a, b) ==
    IF a = 0 \/ b = 0 THEN 0
    ELSE (a % 2) * (b % 2) + 2 * BitAnd(a \div 2, b \div 2)

RECURSIVE BitXor(_, _)
BitXor(a, b) ==
    IF a = 0 THEN b
    ELSE IF b = 0 THEN a
    ELSE ((a + b) % 2) + 2 * BitXor(a \div 2, b \div 2)

BitNot(a) == Word - 1 - a

RECURSIVE BitLen(_)
BitLen(x) == IF x = 0 THEN 0 ELSE 1 + BitLen(x \div 2)

\* __builtin_clzl on a non-zero word
clzl(x) == WordBits - BitLen(x)

MIN(a, b) == IF a < b THEN a ELSE b
MAX(a, b) == IF a > b THEN a ELSE b

VMEM_ALIGNUP(addr, align) ==
    BitAnd(Wrap(addr + align - 1), BitNot(Wrap(align - 1)))

GET_LIST(size) == FREELISTS_N - clzl(size) - 1

\* index of the free list the code uses for a size; -1 for size 1, one
\* slot before the array
freelist_for_size(size) == GET_LIST(size) - 1

murmur64(h0) ==
    LET sh == Pow2((MurmurShift * WordBits) \div 64)
        h1 == BitXor(h0, h0 \div sh)
        h2 == Wrap(h1 * (MurmurC1 % Word))
        h3 == BitXor(h2, h2 \div sh)
        h4 == Wrap(h3 * (MurmurC2 % Word))
    IN  BitXor(h4, h4 \div sh)

hashbucket_for_addr(addr) == murmur64(addr) % HASHTABLES_N

\* ------------------------------------------------------------------ state
VARIABLES
    vm,          \* the arena *vmp and its segment records:
                 \*   quantum    vmp->quantum
                 \*   source     vmp->source is non-null
                 \*   segs       the segment records, by record id
                 \*   segqueue   vmp->segqueue: record ids in list order
                 \*   freelist   vmp->freelist[i]: record ids, head first
                 \*   hashtable  vmp->hashtable[i]: record ids, head first
    pc,          \* "run", "hang" (inside while (true)), "abort" (ASSERT) or
                 \* "fault" (an access to freelist[-1] went wrong)
    call,        \* the last call made and what it returned
    threads,     \* concurrent vmem_xalloc calls in progress
    vm0,         \* the arena as vmem_create returned it
    pool         \* the segment pool:
                 \*   taken      the records acquired with seg_alloc and not
                 \*              released with seg_free since
                 \*   twice      seg_free was given a record not acquired
                 \*   free_segs  the list free_segs (kernel build), head first
                 \*   nfreesegs  the counter nfreesegs (kernel build)

vars == <<vm, pc, call, threads, vm0, pool>>

SegIds == 1..MaxSegs
FreeIdx == (0 - 1)..(FREELISTS_N - 1)
HashIdx == 0..(HASHTABLES_N - 1)
Threads == {1, 2}

NoSeg == [base |-> 0, size |-> 0, type |-> "none"]

NoCall == [op |-> "none", base |-> 0, size |-> 0, align |-> 0, phase |-> 0,
           nocross |-> 0, minaddr |-> 0, maxaddr |-> 0, vmflag |-> {},
           outcome |-> "none", ret |-> 0, sel |-> 0, selbase |-> 0,
           selsize |-> 0, oob |-> FALSE]

IdleThread == [pc |-> "idle", size |-> 0, align |-> 0, phase |-> 0,
               minaddr |-> 0, maxaddr |-> 0, vmflag |-> {},
               new_seg |-> 0, new_seg2 |-> 0, seg |-> 0, start |-> 0,
               ret |-> 0]

\* ------------------------------------------------------- sequence helpers
RECURSIVE SeqRemove(_, _)
SeqRemove(s, x) ==
    IF s = <<>> THEN <<>>
    ELSE IF Head(s) = x THEN SeqRemove(Tail(s), x)
    ELSE <<Head(s)>> \o SeqRemove(Tail(s), x)

SeqElems(s) == {s[i] : i \in 1..Len(s)}

IndexOf(s, x) == CHOOSE i \in 1..Len(s) : s[i] = x

\* s with x inserted right after position i (i = 0: at the front)
InsertAt(s, i, x) == SubSeq(s, 1, i) \o <<x>> \o SubSeq(s, i + 1, Len(s))

\* ------------------------------------------------------------ segment pool
\* hosted build: seg_alloc is malloc, a record not in use by anyone
HeldBy(T) == {T[t].new_seg : t \in DOMAIN T} \cup {T[t].new_seg2 : t \in DOMAIN T}

UnusedIds(A, T) == {i \in SegIds : i \notin SeqElems(A.segqueue) /\ i \notin HeldBy(T)}

seg_alloc(A, T) == CHOOSE i \in UnusedIds(A, T) : \A j \in UnusedIds(A, T) : i <= j

\* hosted build: the pool after seg_alloc returned the records ids
PoolTake(P, ids) == [P EXCEPT !.taken = @ \cup ids]

\* hosted build: seg_free(x) is free(x)
seg_free(P, id) ==
    [P EXCEPT !.taken = @ \ {id}, !.twice = @ \/ id \notin P.taken]

RECURSIVE PoolFree(_, _)
PoolFree(P, ids) ==
    IF ids = <<>> THEN P ELSE PoolFree(seg_free(P, Head(ids)), Tail(ids))

NoPool == [taken |-> {}, twice |-> FALSE, free_segs |-> <<>>, nfreesegs |-> 0]

\* ------------------------------------------------------------ list updates
\* LIST_INSERT_HEAD(freelist_for_size(vm, seg->size), seg, seglist)
vmem_add_to_freelist(A, id) ==
    LET i == freelist_for_size(A.segs[id].size)
    IN  [A EXCEPT !.freelist[i] = <<id>> \o @]

\* LIST_INSERT_HEAD(hashbucket_for_addr(vmem, seg->base), seg, seglist)
hashtab_insert(A, id) ==
    LET i == hashbucket_for_addr(A.segs[id].base)
    IN  [A EXCEPT !.hashtable[i] = <<id>> \o @]

\* LIST_REMOVE(seg, seglist): unlink from whichever list holds the record
LIST_REMOVE(A, id) ==
    [A EXCEPT !.freelist = [i \in FreeIdx |-> SeqRemove(A.freelist[i], id)],
              !.hashtable = [i \in HashIdx |-> SeqRemove(A.hashtable[i], id)]]

\* TAILQ_INSERT_AFTER(&vm->segqueue, prev, seg, segqueue); prev is a
\* position in the queue
vmem_insert_segment(A, id, prevpos) ==
    [A EXCEPT !.segqueue = InsertAt(@, prevpos, id)]

\* ------------------------------------------------------------------- add
vmem_contains(A, address, size) ==
    LET start == address
        end == Wrap(start + size)
    IN  \E k \in 1..Len(A.segqueue) :
            LET seg == A.segs[A.segqueue[k]]
            IN  start >= seg.base /\ end <= Wrap(seg.base + seg.size)

\* vmem_add_internal growing the span at the tail of the list, and its free
\* segment, when the new span starts where they end
vmem_add_internal_MergeTail(A, base, size, import) ==
    IF /\ Len(A.segqueue) >= 2
       /\ A.segs[A.segqueue[Len(A.segqueue)]].type = SEGMENT_FREE
       /\ A.segs[A.segqueue[Len(A.segqueue) - 1]].type = SEGMENT_SPAN
       /\ A.segs[A.segqueue[Len(A.segqueue)]].base
             + A.segs[A.segqueue[Len(A.segqueue)]].size = base
       /\ A.segs[A.segqueue[Len(A.segqueue) - 1]].base
             + A.segs[A.segqueue[Len(A.segqueue) - 1]].size = base
    THEN vmem_add_to_freelist(
             [LIST_REMOVE(A, A.segqueue[Len(A.segqueue)]) EXCEPT
                 !.segs[A.segqueue[Len(A.segqueue)]].size = @ + size,
                 !.segs[A.segqueue[Len(A.segqueue) - 1]].size = @ + size],
             A.segqueue[Len(A.segqueue)])
    ELSE LET newspan == seg_alloc(A, <<>>)
             A1 == [A EXCEPT !.segs[newspan] =
                       [base |-> base, size |-> size, type |-> SEGMENT_SPAN],
                             !.segqueue = Append(@, newspan)]
             newfree == seg_alloc(A1, <<>>)
             A2 == [A1 EXCEPT !.segs[newfree] =
                       [base |-> base, size |-> size, type |-> SEGMENT_FREE]]
             A3 == vmem_insert_segment(A2, newfree, Len(A2.segqueue))
         IN  vmem_add_to_freelist(A3, newfree)

vmem_add_internal(A, base, size, import) ==
    LET newspan == seg_alloc(A, <<>>)
        A1 == [A EXCEPT !.segs[newspan] =
                  [base |-> base, size |-> size, type |-> SEGMENT_SPAN],
                        !.segqueue = Append(@, newspan)]
        newfree == seg_alloc(A1, <<>>)
        A2 == [A1 EXCEPT !.segs[newfree] =
                  [base |-> base, size |-> size, type |-> SEGMENT_FREE]]
        A3 == vmem_insert_segment(A2, newfree, Len(A2.segqueue))
    IN  vmem_add_to_freelist(A3, newfree)

\* the two records vmem_add_internal acquires
AddTaken(A) ==
    {seg_alloc(A, <<>>),
     seg_alloc([A EXCEPT !.segqueue = Append(@, seg_alloc(A, <<>>))], <<>>)}

\* void *vmem_add(vmp, addr, size, vmflag), as a function of the arena:
\* ok is false when the ASSERT fails
vmem_add(A, addr, size) ==
    IF vmem_contains(A, addr, size)
    THEN [ok |-> FALSE, A |-> A]
    ELSE [ok |-> TRUE, A |-> vmem_add_internal(A, addr, size, FALSE)]

\* --------------------------------------------------------------- create
vmem_create(base, size, q, src) ==
    LET A0 == [quantum |-> q, source |-> src,
               segs |-> [i \in SegIds |-> NoSeg],
               segqueue |-> <<>>,
               freelist |-> [i \in FreeIdx |-> <<>>],
               hashtable |-> [i \in HashIdx |-> <<>>]]
    IN  IF ~src /\ size # 0
        THEN vmem_add_internal(A0, base, size, FALSE)
        ELSE A0

\* the records the vmem_create call that returned A acquired
CreateTaken(A) ==
    IF A.segqueue = <<>> THEN {}
    ELSE AddTaken([A EXCEPT !.segqueue = <<>>])

Init ==
    /\ \E base \in CreateBases, size \in CreateSizes, q \in Quanta,
          src \in {FALSE} :
          /\ vm = vmem_create(base, size, q, src)
          /\ call = [NoCall EXCEPT !.op = "create", !.base = base,
                                   !.size = size, !.outcome = "ok"]
    /\ vm0 = vm
    /\ pc = "run"
    /\ threads = [t \in Threads |-> IdleThread]
    /\ pool = PoolTake(NoPool, CreateTaken(vm))

\* ---------------------------------------------------------------- seg_fit
\* seg_fit raising a start below the segment to the segment's base instead
\* of by align
SegFitTail_ClampToBase(segment, size, align, nocross, start1, end) ==
    LET start == IF start1 < segment.base THEN segment.base ELSE start1
    IN  IF nocross # 0 THEN [res |-> "assert", addr |-> 0]
        ELSE IF start <= end /\ (end - start) >= size
             THEN [res |-> "ok", addr |-> start]
             ELSE [res |-> "nomem", addr |-> 0]

\* lines 201-218 of seg_fit: start is the aligned address, end the window end
SegFitTail(segment, size, align, nocross, start1, end) ==
    LET start == IF start1 < segment.base THEN Wrap(start1 + align)
                 ELSE start1
    IN  IF nocross # 0 THEN [res |-> "assert", addr |-> 0]
        ELSE IF start <= end /\ (end - start) >= size
             THEN [res |-> "ok", addr |-> start]
             ELSE [res |-> "nomem", addr |-> 0]

\* lines 189-199 of seg_fit: the window [start, end] before alignment
SegFitWindow(segment, size, align, phase, nocross, start0, end) ==
    IF start0 > end THEN [res |-> "nomem", addr |-> 0]
    ELSE SegFitTail(segment, size, align, nocross,
                    Wrap(VMEM_ALIGNUP(Wrap(start0 - phase), align) + phase),
                    end)

seg_fit(segment, size, align, phase, nocross, minaddr, maxaddr) ==
    IF ~(size > 0) \/ ~(segment.size >= size)
    THEN [res |-> "assert", addr |-> 0]
    ELSE SegFitWindow(segment, size, align, phase, nocross,
                      MIN(segment.base, minaddr),
                      MAX(Wrap(segment.base + segment.size), maxaddr))

\* ----------------------------------------------------------- the fit scan
\* what a scan makes of seg_fit's answer for one segment
ScanOutcome(seg, fit) ==
    IF fit.res = "assert" THEN [kind |-> "abort", seg |-> seg, start |-> 0]
    ELSE IF fit.res = "ok"
    THEN [kind |-> "found", seg |-> seg, start |-> fit.addr]
    ELSE [kind |-> "none", seg |-> 0, start |-> 0]

OrElse(r, rest) == IF r.kind = "none" THEN rest ELSE r

\* one pass of the for loop of the VM_INSTANTFIT branch, from list i
RECURSIVE ScanInstant(_, _, _, _, _, _, _, _)
ScanInstant(A, i, size, align, phase, nocross, minaddr, maxaddr) ==
    IF i >= FREELISTS_N THEN [kind |-> "none", seg |-> 0, start |-> 0]
    ELSE IF A.freelist[i] = <<>>
    THEN ScanInstant(A, i + 1, size, align, phase, nocross, minaddr, maxaddr)
    ELSE OrElse(ScanOutcome(Head(A.freelist[i]),
                            seg_fit(A.segs[Head(A.freelist[i])], size, align,
                                    phase, nocross, minaddr, maxaddr)),
                ScanInstant(A, i + 1, size, align, phase, nocross, minaddr,
                            maxaddr))

\* LIST_FOREACH over one list of the VM_BESTFIT branch
RECURSIVE ScanBestList(_, _, _, _, _, _, _, _)
ScanBestList(A, list, size, align, phase, nocross, minaddr, maxaddr) ==
    IF list = <<>> THEN [kind |-> "none", seg |-> 0, start |-> 0]
    ELSE OrElse(IF A.segs[Head(list)].size >= size
                THEN ScanOutcome(Head(list),
                                 seg_fit(A.segs[Head(list)], size, align,
                                         phase, nocross, minaddr, maxaddr))
                ELSE [kind |-> "none", seg |-> 0, start |-> 0],
                ScanBestList(A, Tail(list), size, align, phase, nocross,
                             minaddr, maxaddr))

\* one pass of the for loop of the VM_BESTFIT branch, from list i
RECURSIVE ScanBest(_, _, _, _, _, _, _, _)
ScanBest(A, i, size, align, phase, nocross, minaddr, maxaddr) ==
    IF i >= FREELISTS_N THEN [kind |-> "none", seg |-> 0, start |-> 0]
    ELSE OrElse(ScanBestList(A, A.freelist[i], size, align, phase, nocross,
                             minaddr, maxaddr),
                ScanBest(A, i + 1, size, align, phase, nocross, minaddr,
                         maxaddr))

\* the ASSERTs after the label found
FoundAsserts(A, size, r) ==
    IF r.kind = "found" /\ ( \/ A.segs[r.seg].type # SEGMENT_FREE
                             \/ ~(A.segs[r.seg].size >= size) )
    THEN [kind |-> "abort", seg |-> r.seg, start |-> 0]
    ELSE r

\* one iteration of while (true), up to the label found and its ASSERTs.
\* "none" means the iteration ended without goto found; the arena is then
\* unchanged and the next iteration is the same.
Scan(A, size, align, phase, nocross, minaddr, maxaddr, vmflag) ==
    FoundAsserts(A, size,
        IF VM_INSTANTFIT \in vmflag
        THEN ScanInstant(A, freelist_for_size(size), size, align, phase,
                         nocross, minaddr, maxaddr)
        ELSE IF VM_BESTFIT \in vmflag
        THEN ScanBest(A, freelist_for_size(size), size, align, phase,
                      nocross, minaddr, maxaddr)
        ELSE [kind |-> "abort", seg |-> 0, start |-> 0])

\* ------------------------------------------------ the split after found
\* lines 341-367: the leading leftover.  A FREE record always follows its
\* SPAN record in segqueue, so TAILQ_PREV is not NULL.
CarveLead(A0, seg, start, new_seg2) ==
    IF A0.segs[seg].base # start
    THEN vmem_insert_segment(
             vmem_add_to_freelist(
                 [A0 EXCEPT
                    !.segs[new_seg2] =
                       [base |-> A0.segs[seg].base,
                        size |-> Wrap(start - A0.segs[seg].base),
                        type |-> SEGMENT_FREE],
                    !.segs[seg] =
                       [type |-> A0.segs[seg].type,
                        base |-> start,
                        size |-> Wrap(A0.segs[seg].size
                                      - Wrap(start - A0.segs[seg].base))]],
                 new_seg2),
             new_seg2, IndexOf(A0.segqueue, seg) - 1)
    ELSE A0

\* CarveSplit entering seg, not new_seg, in the hash table after a split
CarveSplit_HashesSeg(A1, seg, size, new_seg) ==
    IF A1.segs[seg].size > size /\ (A1.segs[seg].size - size) > A1.quantum - 1
    THEN hashtab_insert(
             vmem_insert_segment(
                 vmem_add_to_freelist(
                     [A1 EXCEPT
                        !.segs[new_seg] =
                           [base |-> A1.segs[seg].base, size |-> size,
                            type |-> SEGMENT_ALLOCATED],
                        !.segs[seg] =
                           [type |-> A1.segs[seg].type,
                            base |-> Wrap(A1.segs[seg].base + size),
                            size |-> A1.segs[seg].size - size]],
                     seg),
                 new_seg, IndexOf(A1.segqueue, seg) - 1),
             seg)
    ELSE hashtab_insert(A1, seg)

\* lines 371-398: the trailing leftover, or the whole segment
CarveSplit(A1, seg, size, new_seg) ==
    IF A1.segs[seg].size > size /\ (A1.segs[seg].size - size) > A1.quantum - 1
    THEN hashtab_insert(
             vmem_insert_segment(
                 vmem_add_to_freelist(
                     [A1 EXCEPT
                        !.segs[new_seg] =
                           [base |-> A1.segs[seg].base, size |-> size,
                            type |-> SEGMENT_ALLOCATED],
                        !.segs[seg] =
                           [type |-> A1.segs[seg].type,
                            base |-> Wrap(A1.segs[seg].base + size),
                            size |-> A1.segs[seg].size - size]],
                     seg),
                 new_seg, IndexOf(A1.segqueue, seg) - 1),
             new_seg)
    ELSE hashtab_insert(A1, seg)

\* lines 400-409: res is the record new_seg points to at the end
CarveEnd(A2, res, size, oob) ==
    IF A2.segs[res].size >= size
    THEN [A |-> [A2 EXCEPT !.segs[res].type = SEGMENT_ALLOCATED],
          outcome |-> "ok", ret |-> A2.segs[res].base, oob |-> oob]
    ELSE [A |-> A2, outcome |-> "abort", ret |-> 0, oob |-> oob]

CarveFrom(A1, seg, size, new_seg, ooblead) ==
    CarveEnd(CarveSplit(A1, seg, size, new_seg),
             IF A1.segs[seg].size > size
                /\ (A1.segs[seg].size - size) > A1.quantum - 1
             THEN new_seg ELSE seg,
             size,
             \/ ooblead
             \/ /\ A1.segs[seg].size > size
                /\ (A1.segs[seg].size - size) > A1.quantum - 1
                /\ GET_LIST(A1.segs[seg].size - size) = 0)

\* lines 339-409: seg is the chosen record, start the address of seg_fit,
\* new_seg and new_seg2 the two records acquired on entry
Carve(A, seg, start, size, new_seg, new_seg2) ==
    CarveFrom(CarveLead(LIST_REMOVE(A, seg), seg, start, new_seg2),
              seg, size, new_seg,
              /\ A.segs[seg].base # start
              /\ GET_LIST(Wrap(start - A.segs[seg].base)) = 0)

\* lines 393-401: the records given to seg_free, in order; A1 is the arena
\* after the leading leftover, lead tells whether there was one
CarveFreedFrom(A1, seg, size, new_seg, new_seg2, lead) ==
    (IF A1.segs[seg].size > size /\ (A1.segs[seg].size - size) > A1.quantum - 1
     THEN <<>> ELSE <<new_seg>>)
    \o (IF lead THEN <<>> ELSE <<new_seg2>>)

\* CarveFreed without lines 400-401
CarveFreed_KeepsNewSeg2(A, seg, start, size, new_seg, new_seg2) ==
    CarveFreedFrom(CarveLead(A, seg, start, new_seg2),
                   seg, size, new_seg, new_seg2, TRUE)

CarveFreed(A, seg, start, size, new_seg, new_seg2) ==
    CarveFreedFrom(CarveLead(A, seg, start, new_seg2),
                   seg, size, new_seg, new_seg2, A.segs[seg].base # start)

\* ------------------------------------------------------------ vmem_xalloc
SecondUnused(A, first) ==
    CHOOSE i \in UnusedIds(A, <<>>) \ {first} :
        \A j \in UnusedIds(A, <<>>) \ {first} : i <= j

\* the result of a call that reached found: c is what the split returned
XallocFound(A, r, c, acq, freed) ==
    [A |-> c.A, outcome |-> c.outcome, ret |-> c.ret, oob |-> c.oob,
     sel |-> r.seg, selbase |-> A.segs[r.seg].base,
     selsize |-> A.segs[r.seg].size, acq |-> acq, freed |-> freed]

\* what the call does once its scan has answered r
XallocAfterScan(A, size, r, new_seg) ==
    IF r.kind = "found"
    THEN XallocFound(A, r,
                     Carve(A, r.seg, r.start, size, new_seg,
                           SecondUnused(A, new_seg)),
                     {new_seg, SecondUnused(A, new_seg)},
                     CarveFreed(A, r.seg, r.start, size, new_seg,
                                SecondUnused(A, new_seg)))
    ELSE [A |-> A, outcome |-> IF r.kind = "none" THEN "hang" ELSE "abort",
          ret |-> 0, oob |-> FALSE, sel |-> 0, selbase |-> 0, selsize |-> 0,
          acq |-> {new_seg, SecondUnused(A, new_seg)}, freed |-> <<>>]

\* the whole call, run alone.  outcome "hang": while (true) never exits.
vmem_xalloc(A, size, align, phase, nocross, minaddr, maxaddr, vmflag) ==
    IF nocross # 0
    THEN [A |-> A, outcome |-> "abort", ret |-> 0, oob |-> FALSE,
          sel |-> 0, selbase |-> 0, selsize |-> 0, acq |-> {},
          freed |-> <<>>]
    ELSE XallocAfterScan(A, size,
             Scan(A, size, IF align = 0 THEN A.quantum ELSE align, phase,
                  nocross, minaddr, maxaddr, vmflag),
             seg_alloc(A, <<>>))

\* ----------------------------------------------------------------- actions
PcOf(outcome) == IF outcome = "ok" THEN "run" ELSE outcome

Idle == \A t \in Threads : threads[t].pc = "idle"

\* what an access outside the freelist array may do: act on the slot before
\* the array, or bring the program down
OobOutcomes(oob, outcome) ==
    IF oob /\ outcome = "ok" THEN {"ok", "fault"} ELSE {outcome}

AddDo(base, size, rejected) ==
    IF rejected
    THEN /\ pc' = "abort"
         /\ call' = [NoCall EXCEPT !.op = "add", !.base = base,
                                   !.size = size, !.outcome = "abort"]
         /\ UNCHANGED <<vm, pool>>
    ELSE /\ \E o \in OobOutcomes(GET_LIST(size) = 0, "ok") :
               /\ pc' = PcOf(o)
               /\ call' = [NoCall EXCEPT !.op = "add", !.base = base,
                                         !.size = size, !.outcome = o,
                                         !.ret = base,
                                         !.oob = (GET_LIST(size) = 0)]
         /\ vm' = vmem_add_internal(vm, base, size, FALSE)
         /\ pool' = PoolTake(pool, AddTaken(vm))

\* void *vmem_add(Vmem *vmp, void *addr, size_t size, int vmflag)
Add ==
    /\ pc = "run"
    /\ Idle
    /\ Cardinality(UnusedIds(vm, <<>>)) >= 2
    /\ \E base \in AddBases, size \in AddSizes :
          AddDo(base, size, vmem_contains(vm, base, size))
    /\ UNCHANGED <<threads, vm0>>

XallocDo(size, align, phase, nocross, minaddr, maxaddr, vmflag, r) ==
    /\ vm' = r.A
    /\ pool' = PoolFree(PoolTake(pool, r.acq), r.freed)
    /\ \E o \in OobOutcomes(r.oob \/ GET_LIST(size) = 0, r.outcome) :
          /\ pc' = PcOf(o)
          /\ call' = [op |-> "xalloc", base |-> 0, size |-> size,
                      align |-> align, phase |-> phase,
                      nocross |-> nocross, minaddr |-> minaddr,
                      maxaddr |-> maxaddr, vmflag |-> vmflag,
                      outcome |-> o, ret |-> r.ret,
                      sel |-> r.sel, selbase |-> r.selbase,
                      selsize |-> r.selsize,
                      oob |-> r.oob \/ GET_LIST(size) = 0]

\* void *vmem_xalloc(...), run to its end (or to the point it never leaves)
Xalloc ==
    /\ pc = "run"
    /\ Idle
    /\ Cardinality(UnusedIds(vm, <<>>)) >= 2
    /\ \E c \in XCalls :
          XallocDo(c.size, c.align, c.phase, c.nocross, c.minaddr,
                   c.maxaddr, c.vmflag,
                   vmem_xalloc(vm, c.size, c.align, c.phase, c.nocross,
                               c.minaddr, c.maxaddr, c.vmflag))
    /\ UNCHANGED <<threads, vm0>>

Next == Add \/ Xalloc

Spec == Init /\ [][Next]_vars

\* ------------------------------------------------- vmem_create, again
CreateDo(base, size, oob, A) ==
    /\ vm' = A
    /\ vm0' = A
    /\ pool' = PoolTake(NoPool, CreateTaken(A))
    /\ \E o \in OobOutcomes(oob, "ok") :
          /\ pc' = PcOf(o)
          /\ call' = [NoCall EXCEPT !.op = "create", !.base = base,
                                    !.size = size, !.outcome = o,
                                    !.oob = oob]

\* Vmem *vmem_create(name, base, size, quantum, afunc, ffunc, source,
\* qcache_max, vmflag): a new arena, which vm then stands for
Create ==
    /\ pc = "run"
    /\ Idle
    /\ \E base \in NewBases, size \in NewSizes, q \in Quanta,
          src \in NewSources :
          CreateDo(base, size, ~src /\ size # 0 /\ GET_LIST(size) = 0,
                   vmem_create(base, size, q, src))
    /\ UNCHANGED threads

SpecCreate == Init /\ [][Create]_vars

\* ------------------------------------------- the pool of the kernel build
\* Records are numbered: static_segs[i] is record i + 1, the records of the
\* pages alloc_pages returns follow.

\* void vmem_bootstrap(void)
vmem_bootstrap(P) ==
    [P EXCEPT !.free_segs = [i \in 1..StaticSegs |-> StaticSegs + 1 - i] \o @,
              !.nfreesegs = @ + StaticSegs]

\* static VmemSegment *seg_alloc(void), on a list that is not empty
seg_alloc_kernel(P) ==
    [P EXCEPT !.free_segs = Tail(@),
              !.nfreesegs = @ - 1,
              !.taken = @ \cup {Head(P.free_segs)}]

\* static void seg_free(VmemSegment *seg)
seg_free_kernel(P, seg) ==
    [P EXCEPT !.free_segs = <<seg>> \o @,
              !.nfreesegs = @ + 1,
              !.taken = @ \ {seg},
              !.twice = @ \/ seg \notin P.taken]

RECURSIVE PoolFreeKernel(_, _)
PoolFreeKernel(P, ids) ==
    IF ids = <<>> THEN P
    ELSE PoolFreeKernel(seg_free_kernel(P, Head(ids)), Tail(ids))

\* the first record of the page the next alloc_pages(1) returns
SetMax(S) == CHOOSE x \in S : \A y \in S : y <= x

NextSegblock(P) ==
    1 + SetMax({StaticSegs} \cup SeqElems(P.free_segs) \cup P.taken)

\* the pages alloc_pages has returned so far
Refills(P) == (NextSegblock(P) - 1 - StaticSegs) \div SegblockSegs

\* lines 91-94: seg_free(&segblock->segs[i]) for i from i up
RECURSIVE RepopulateLoop(_, _, _)
RepopulateLoop(P, first, i) ==
    IF i >= SegblockSegs THEN P
    ELSE RepopulateLoop(seg_free_kernel(P, first + i), first, i + 1)

\* lines 89-96, P holding the records of the new page
RepopulateFrom(P, first) ==
    [RepopulateLoop(P, first, 0) EXCEPT !.nfreesegs = @ + SegblockSegs]

\* static int repopulate_segments(void)
repopulate_segments(P) ==
    IF P.nfreesegs > NFREESEGS_MIN THEN P
    ELSE RepopulateFrom(
             PoolTake(P, NextSegblock(P)..(NextSegblock(P) + SegblockSegs - 1)),
             NextSegblock(P))

\* vmem_bootstrap has been called
Booted(P) == P.free_segs # <<>> \/ P.taken # {}

PoolCall(op, vmflag, outcome) ==
    [NoCall EXCEPT !.op = op, !.vmflag = vmflag, !.outcome = outcome]

\* vmem_bootstrap(), called once, before any arena operation
Bootstrap ==
    /\ pc = "run"
    /\ ~Booted(pool)
    /\ pool' = vmem_bootstrap(pool)
    /\ call' = PoolCall("bootstrap", {}, "ok")
    /\ UNCHANGED <<vm, pc, threads, vm0>>

\* what a caller of seg_alloc, seg_alloc does to the pool P, keeping the
\* first record iff keep1 and the second iff keep2
TakeTwo(P, keep1, keep2) ==
    IF P.free_segs = <<>> THEN [ok |-> FALSE, P |-> P]
    ELSE IF Tail(P.free_segs) = <<>>
    THEN [ok |-> FALSE, P |-> seg_alloc_kernel(P)]
    ELSE [ok |-> TRUE,
          P |-> PoolFreeKernel(seg_alloc_kernel(seg_alloc_kernel(P)),
                    (IF keep1 THEN <<>> ELSE <<P.free_segs[1]>>)
                    \o (IF keep2 THEN <<>> ELSE <<P.free_segs[2]>>))]

PoolDo(op, vmflag, r) ==
    /\ pool' = r.P
    /\ pc' = IF r.ok THEN "run" ELSE "abort"
    /\ call' = PoolCall(op, vmflag, IF r.ok THEN "ok" ELSE "abort")

\* the pool's part of vmem_add (lines 159-170): two records, both linked
PoolAdd ==
    /\ pc = "run"
    /\ Booted(pool)
    /\ PoolDo("add", {}, TakeTwo(pool, TRUE, TRUE))
    /\ UNCHANGED <<vm, threads, vm0>>

\* the pool's part of vmem_xalloc (lines 283-291, 393-401): the refill
\* under VM_BOOTSTRAP, two records, and the release of those the split did
\* not link
PoolXalloc ==
    /\ pc = "run"
    /\ Booted(pool)
    /\ \E vmflag \in {{VM_INSTANTFIT}, {VM_INSTANTFIT, VM_BOOTSTRAP}},
          keep1 \in BOOLEAN, keep2 \in BOOLEAN :
          /\ (VM_BOOTSTRAP \in vmflag /\ pool.nfreesegs <= NFREESEGS_MIN)
                => Refills(pool) < MaxRefills
          /\ PoolDo("xalloc", vmflag,
                    TakeTwo(IF VM_BOOTSTRAP \in vmflag
                            THEN repopulate_segments(pool) ELSE pool,
                            keep1, keep2))
    /\ UNCHANGED <<vm, threads, vm0>>

NextPool == Bootstrap \/ PoolAdd \/ PoolXalloc

\* the kernel before vmem_bootstrap: the static list is empty, no arena has
\* a segment
InitPool ==
    /\ vm = vmem_create(0, 0, 1, FALSE)
    /\ vm0 = vm
    /\ pc = "run"
    /\ call = NoCall
    /\ threads = [t \in Threads |-> IdleThread]
    /\ pool = NoPool

SpecPool == InitPool /\ [][NextPool]_vars

\* ------------------------------------------- vmem_xalloc, two at a time
\* The source takes no lock (line 27), so two calls on one arena interleave.
\* A call is cut where it stops reading and starts writing: entry (records
\* acquired), one iteration of while (true) up to found, and the split.

\* lines 268-291: entry, the two records acquired
XallocBegin ==
    /\ pc = "run"
    /\ \E t \in Threads, size \in TSizes, vmflag \in TFlags :
          /\ threads[t].pc = "idle"
          /\ Cardinality(UnusedIds(vm, threads)) >= 2
          /\ threads' = [threads EXCEPT ![t] =
                [IdleThread EXCEPT
                    !.pc = "scan", !.size = size, !.vmflag = vmflag,
                    !.new_seg = seg_alloc(vm, threads),
                    !.new_seg2 = seg_alloc(vm,
                        [threads EXCEPT ![t].new_seg = seg_alloc(vm, threads)])]]
          /\ pool' = PoolTake(pool,
                {seg_alloc(vm, threads),
                 seg_alloc(vm, [threads EXCEPT
                                   ![t].new_seg = seg_alloc(vm, threads)])})
    /\ UNCHANGED <<vm, pc, call, vm0>>

ScanDo(t, r) ==
    IF r.kind = "found"
    THEN /\ threads' = [threads EXCEPT ![t].pc = "found", ![t].seg = r.seg,
                                        ![t].start = r.start]
         /\ pc' = pc
    ELSE IF r.kind = "abort"
    THEN /\ pc' = "abort"
         /\ threads' = threads
    ELSE /\ pc' = pc
         /\ threads' = threads

\* lines 293-336: one iteration of while (true)
XallocScan ==
    /\ pc = "run"
    /\ \E t \in Threads :
          /\ threads[t].pc = "scan"
          /\ ScanDo(t, Scan(vm, threads[t].size,
                            IF threads[t].align = 0 THEN vm.quantum
                            ELSE threads[t].align,
                            threads[t].phase, 0, threads[t].minaddr,
                            threads[t].maxaddr, threads[t].vmflag))
    /\ UNCHANGED <<vm, call, vm0, pool>>

CommitDo(t, c) ==
    /\ vm' = c.A
    /\ \E o \in OobOutcomes(c.oob, c.outcome) :
          /\ pc' = PcOf(o)
          /\ threads' = [threads EXCEPT
                            ![t].pc = IF o = "ok" THEN "done" ELSE "found",
                            ![t].ret = c.ret,
                            ![t].new_seg = 0, ![t].new_seg2 = 0]

\* lines 338-409: the split, on the record and address the scan chose
XallocCommit ==
    /\ pc = "run"
    /\ \E t \in Threads :
          /\ threads[t].pc = "found"
          /\ CommitDo(t, Carve(vm, threads[t].seg, threads[t].start,
                               threads[t].size, threads[t].new_seg,
                               threads[t].new_seg2))
          /\ pool' = PoolFree(pool,
                CarveFreed(vm, threads[t].seg, threads[t].start,
                           threads[t].size, threads[t].new_seg,
                           threads[t].new_seg2))
    /\ UNCHANGED <<call, vm0>>

NextConc == XallocBegin \/ XallocScan \/ XallocCommit

SpecConc == Init /\ [][NextConc]_vars

\* ------------------------------------------------------------ properties
\* the segments of an arena in list order
QueueSegs(A) == [k \in 1..Len(A.segqueue) |-> A.segs[A.segqueue[k]]]

\* [a.base, a.base + a.size) and [b.base, b.base + b.size) intersect
Overlap(a, b) == a.base < b.base + b.size /\ b.base < a.base + a.size

SpansDisjoint(A) ==
    \A i, j \in 1..Len(A.segqueue) :
        ( /\ i # j
          /\ QueueSegs(A)[i].type = SEGMENT_SPAN
          /\ QueueSegs(A)[j].type = SEGMENT_SPAN )
        => ~Overlap(QueueSegs(A)[i], QueueSegs(A)[j])

AlignOf(A, c) == IF c.align = 0 THEN A.quantum ELSE c.align

XallocOk == call.op = "xalloc" /\ call.outcome = "ok"

\* C1: in an arena whose spans are disjoint, no two ALLOCATED segments
\* overlap and no FREE segment overlaps an ALLOCATED segment.
C1_Disjoint ==
    (pc = "run" /\ SpansDisjoint(vm)) =>
        \A i, j \in 1..Len(vm.segqueue) :
            ( /\ i # j
              /\ QueueSegs(vm)[i].type = SEGMENT_ALLOCATED
              /\ QueueSegs(vm)[j].type \in {SEGMENT_ALLOCATED, SEGMENT_FREE} )
            => ~Overlap(QueueSegs(vm)[i], QueueSegs(vm)[j])

\* a is an address at which the request c fits in the free segment s
FitsAt(A, s, c, a) ==
    /\ s.base <= a
    /\ a + c.size <= s.base + s.size
    /\ a >= c.minaddr
    /\ c.maxaddr # 0 => a + c.size <= c.maxaddr
    /\ (a - c.phase) % AlignOf(A, c) = 0

NoFreeFits(A, c) ==
    \A k \in 1..Len(A.segqueue) :
        QueueSegs(A)[k].type = SEGMENT_FREE =>
            \A a \in 0..(Word - 1) : ~FitsAt(A, QueueSegs(A)[k], c, a)

\* C2: a vmem_xalloc call (with a fit policy) on an arena without source in
\* which no free segment can hold the request returns ERR_NOMEM: it neither
\* stays in its loop nor aborts.
C2_ExhaustionReturnsNoMem ==
    [][ ( /\ call'.op = "xalloc"
          /\ call'.vmflag # {}
          /\ ~vm.source
          /\ NoFreeFits(vm, call') )
        => (pc' = "run" /\ call'.outcome = "nomem") ]_vars

\* C3: a successful vmem_xalloc returns a with a >= minaddr and, when
\* maxaddr is set, a + size <= maxaddr, and [a, a + size) lies within the
\* segment the call chose.
C3_Window ==
    XallocOk =>
        /\ call.ret >= call.minaddr
        /\ call.maxaddr # 0 => call.ret + call.size <= call.maxaddr
        /\ call.selbase <= call.ret
        /\ call.ret + call.size <= call.selbase + call.selsize

\* C4: a successful vmem_xalloc returns a with (a - phase) mod align = 0,
\* align = 0 standing for the quantum.
C4_Aligned ==
    XallocOk => (call.ret - call.phase) % AlignOf(vm, call) = 0

\* C4 witness: a successful call in which start - phase wrapped around
C4_WrapWitness ==
    /\ XallocOk
    /\ MIN(call.selbase, call.minaddr) < call.phase

\* the positions of the non-span segments that follow the span at position k
\* up to the next span
RECURSIVE SpanRun(_, _)
SpanRun(A, k) ==
    IF k + 1 > Len(A.segqueue) \/ QueueSegs(A)[k + 1].type = SEGMENT_SPAN
    THEN <<>>
    ELSE <<k + 1>> \o SpanRun(A, k + 1)

Tiled(A, k) ==
    LET run == SpanRun(A, k)
        p == QueueSegs(A)[k]
    IN  /\ run # <<>>
        /\ QueueSegs(A)[run[1]].base = p.base
        /\ QueueSegs(A)[run[Len(run)]].base + QueueSegs(A)[run[Len(run)]].size
              = p.base + p.size
        /\ \A n \in 1..(Len(run) - 1) :
              QueueSegs(A)[run[n]].base + QueueSegs(A)[run[n]].size
                 = QueueSegs(A)[run[n + 1]].base

\* C5: each span is exactly tiled by the non-span segments that follow it
\* in the segment list.
C5_SpansTiled ==
    pc = "run" =>
        \A k \in 1..Len(vm.segqueue) :
            QueueSegs(vm)[k].type = SEGMENT_SPAN => Tiled(vm, k)

QuantumMultiples(A) ==
    \A k \in 1..Len(A.segqueue) :
        QueueSegs(A)[k].type # SEGMENT_SPAN =>
            /\ QueueSegs(A)[k].size > 0
            /\ QueueSegs(A)[k].size % A.quantum = 0

\* C6: the size of every FREE or ALLOCATED segment is a positive multiple
\* of the quantum, and a vmem_xalloc of any size > 0 whose align, phase and
\* minaddr are multiples of the quantum keeps it so.
C6_QuantumMultiples ==
    [][ ( /\ call'.op = "xalloc"
          /\ pc' = "run"
          /\ call'.align % vm.quantum = 0
          /\ call'.phase % vm.quantum = 0
          /\ call'.minaddr % vm.quantum = 0
          /\ QuantumMultiples(vm) )
        => QuantumMultiples(vm') ]_vars

\* C7: the spans of an arena never overlap (vmem_add rejects every
\* overlapping span).
C7_SpansNeverOverlap == pc = "run" => SpansDisjoint(vm)

\* the free-list indexes in which record id is linked, with multiplicity
Buckets(A, id) ==
    {<<i, n>> \in FreeIdx \X (1..MaxSegs) :
        n <= Len(A.freelist[i]) /\ A.freelist[i][n] = id}

\* C8: each FREE segment is linked in exactly one free list i, with
\* 0 <= i < FREELISTS_N and 2^i <= size < 2^(i+1).
C8_BucketIsFloorLog2 ==
    pc = "run" =>
        \A k \in 1..Len(vm.segqueue) :
            QueueSegs(vm)[k].type = SEGMENT_FREE =>
                \E i \in 0..(FREELISTS_N - 1) :
                    /\ Cardinality(Buckets(vm, vm.segqueue[k])) = 1
                    /\ \E n \in 1..MaxSegs : <<i, n>> \in Buckets(vm, vm.segqueue[k])
                    /\ Pow2(i) <= QueueSegs(vm)[k].size
                    /\ QueueSegs(vm)[k].size < Pow2(i + 1)

\* thread a's call and then thread b's, each run alone from arena A0, give
\* the addresses the two threads returned and the segment list of A
SerialSecond(A, a, b, r1, r2) ==
    /\ r1.outcome = "ok"
    /\ r2.outcome = "ok"
    /\ r1.ret = threads[a].ret
    /\ r2.ret = threads[b].ret
    /\ QueueSegs(r2.A) = QueueSegs(A)

SerialFirst(A, a, b, r1) ==
    SerialSecond(A, a, b, r1,
        vmem_xalloc(r1.A, threads[b].size, threads[b].align,
                    threads[b].phase, 0, threads[b].minaddr,
                    threads[b].maxaddr, threads[b].vmflag))

SerialRun(A0, A, a, b) ==
    SerialFirst(A, a, b,
        vmem_xalloc(A0, threads[a].size, threads[a].align,
                    threads[a].phase, 0, threads[a].minaddr,
                    threads[a].maxaddr, threads[a].vmflag))

\* C9: two concurrent vmem_xalloc calls that both return leave the arena
\* and return the addresses of the two calls run one after the other, in
\* one of the two orders.
C9_Serializable ==
    (\A t \in Threads : threads[t].pc = "done") =>
        SerialRun(vm0, vm, 1, 2) \/ SerialRun(vm0, vm, 2, 1)

\* seg_fit succeeds on record id for the request c
FitOk(A, id, c) ==
    /\ A.segs[id].size >= c.size
    /\ seg_fit(A.segs[id], c.size, AlignOf(A, c), c.phase, c.nocross,
               c.minaddr, c.maxaddr).res = "ok"

FitIn(A, i, c) == {id \in SeqElems(A.freelist[i]) : FitOk(A, id, c)}

FirstFitBucket(A, c) ==
    CHOOSE i \in freelist_for_size(c.size)..(FREELISTS_N - 1) :
        /\ FitIn(A, i, c) # {}
        /\ \A j \in freelist_for_size(c.size)..(i - 1) : FitIn(A, j, c) = {}

BestChosen(A, c, best) ==
    /\ c.sel \in FitIn(A, best, c)
    /\ \A id \in FitIn(A, best, c) : A.segs[c.sel].size <= A.segs[id].size

\* C10: with VM_BESTFIT, in an arena whose spans are disjoint, the segment
\* vmem_xalloc allocates from is the smallest segment on which seg_fit
\* succeeds in the first free list, from the list of the requested size
\* upward, that holds such a segment.
C10_BestFitSmallest ==
    [][ ( /\ call'.op = "xalloc"
          /\ call'.vmflag = {VM_BESTFIT}
          /\ call'.sel # 0
          /\ SpansDisjoint(vm) )
        => BestChosen(vm, call', FirstFitBucket(vm, call')) ]_vars

\* record id is linked in one of the free lists freelist[0 .. FREELISTS_N-1]
InAFreeList(A, id) ==
    \E i \in 0..(FREELISTS_N - 1) : id \in SeqElems(A.freelist[i])

\* C11: vmem_create installs an initial span iff source is null and
\* size > 0: the arena then holds one SPAN [base, base + size) followed by
\* one FREE segment covering it, linked in a free list; otherwise it holds
\* no segment, and every free list and hash bucket is empty.
C11_CreateInstallsSpan ==
    (call.op = "create" /\ pc = "run") =>
        /\ \A i \in HashIdx : vm.hashtable[i] = <<>>
        /\ IF ~vm.source /\ call.size > 0
           THEN /\ Len(vm.segqueue) = 2
                /\ QueueSegs(vm)[1] = [base |-> call.base, size |-> call.size,
                                       type |-> SEGMENT_SPAN]
                /\ QueueSegs(vm)[2] = [base |-> call.base, size |-> call.size,
                                       type |-> SEGMENT_FREE]
                /\ InAFreeList(vm, vm.segqueue[2])
                /\ ~InAFreeList(vm, vm.segqueue[1])
           ELSE /\ vm.segqueue = <<>>
                /\ \A i \in FreeIdx : vm.freelist[i] = <<>>

Sorted(A) ==
    \A i, j \in 1..Len(A.segqueue) :
        i < j => QueueSegs(A)[i].base <= QueueSegs(A)[j].base

\* C12: the segment list is sorted by base after any sequence of vmem_add
\* and vmem_xalloc calls: a segment that precedes another has a base <= the
\* other's.  Stated of vmem_add: adding a span that overlaps no other to a
\* sorted list leaves it sorted, also when the span lies below the others.
C12_SegmentListSorted ==
    [][ ( /\ call'.op = "add"
          /\ pc' = "run"
          /\ SpansDisjoint(vm')
          /\ Sorted(vm) )
        => Sorted(vm') ]_vars

\* the spans vmem_add is called with
AddSpans == [base : AddBases, size : AddSizes]

\* the (base, size, kind) triples of the segments of an arena
SegSet(A) == {QueueSegs(A)[k] : k \in 1..Len(A.segqueue)}

AddSecond(r, Y) == IF r.ok THEN vmem_add(r.A, Y.base, Y.size) ELSE r

\* vmem_add of X, then of Y
AddTwo(A, X, Y) == AddSecond(vmem_add(A, X.base, X.size), Y)

SameSegSet(r1, r2) ==
    /\ r1.ok = r2.ok
    /\ r1.ok => SegSet(r1.A) = SegSet(r2.A)

\* C13: adding two spans X and Y that do not overlap to an arena gives the
\* same set of (base, size, kind) triples whether X or Y is added first.
C13_AddOrderIndependent ==
    (pc = "run" /\ Cardinality(UnusedIds(vm, <<>>)) >= 4) =>
        \A X, Y \in AddSpans :
            (X.base < Y.base /\ ~Overlap(X, Y)) =>
                SameSegSet(AddTwo(vm, X, Y), AddTwo(vm, Y, X))

\* C13 witness: the arena was made by adding, to the arena vmem_create
\* returned, a span and then a span below it
C13_TwoSpansAdded ==
    /\ pc = "run"
    /\ call.op = "add"
    /\ \E X, Y \in AddSpans :
          /\ Y.base + Y.size <= X.base
          /\ AddTwo(vm0, X, Y).ok
          /\ vm = AddTwo(vm0, X, Y).A
          /\ SegSet(AddTwo(vm0, Y, X).A) = SegSet(vm)

\* the answer fit of seg_fit for the request c on segment seg lies in seg
FitWithin(seg, c, fit) ==
    fit.res = "ok" =>
        /\ seg.base <= fit.addr
        /\ fit.addr + c.size <= seg.base + seg.size
        /\ Wrap(fit.addr - seg.base) = fit.addr - seg.base

\* C14: whenever seg_fit succeeds on a free segment of the arena, the
\* address it returns lies within the segment: seg.base <= start and
\* start + size <= seg.base + seg.size, so that the leading leftover
\* start - seg.base does not underflow.
C14_FitWithinSegment ==
    pc = "run" =>
        \A k \in 1..Len(vm.segqueue), c \in XCalls :
            ( /\ QueueSegs(vm)[k].type = SEGMENT_FREE
              /\ QueueSegs(vm)[k].size >= c.size
              /\ c.nocross = 0 )
            => FitWithin(QueueSegs(vm)[k], c,
                         seg_fit(QueueSegs(vm)[k], c.size, AlignOf(vm, c),
                                 c.phase, c.nocross, c.minaddr, c.maxaddr))

\* C15: with VM_INSTANTFIT every segment vmem_xalloc takes from the free
\* lists it scans, from freelist_for_size(size) upward, is at least size
\* large: ASSERT(segment->size >= size) of seg_fit and ASSERT(seg->size >=
\* size) after found never fail, for every request and every free-list
\* content the program reaches.
C15_InstantFitBigEnough ==
    pc = "run" =>
        \A c \in XCalls :
            (VM_INSTANTFIT \in c.vmflag /\ c.nocross = 0 /\ c.size > 0)
            => Scan(vm, c.size, AlignOf(vm, c), c.phase, c.nocross,
                    c.minaddr, c.maxaddr, c.vmflag).kind # "abort"

\* what replaces the free segment [b, e) when size units are allocated at
\* start
SplitOf(b, e, start, size, quantum) ==
    (IF start > b
     THEN <<[base |-> b, size |-> start - b, type |-> SEGMENT_FREE]>>
     ELSE <<>>)
    \o (IF e - (start + size) >= quantum
        THEN <<[base |-> start, size |-> size, type |-> SEGMENT_ALLOCATED],
               [base |-> start + size, size |-> e - (start + size),
                type |-> SEGMENT_FREE]>>
        ELSE <<[base |-> start, size |-> e - start,
                type |-> SEGMENT_ALLOCATED]>>)

\* the segment list segs with its p-th segment replaced by the sequence by
ReplaceAt(segs, p, by) ==
    SubSeq(segs, 1, p - 1) \o by \o SubSeq(segs, p + 1, Len(segs))

\* C16: a successful vmem_xalloc that chooses the free segment [b, e) and
\* the address start replaces that segment, in place in the segment list, by
\* FREE [b, start) iff start > b, the ALLOCATED segment at start, and FREE
\* [start + size, e) iff e - (start + size) >= quantum, the ALLOCATED
\* segment otherwise reaching e; every other segment keeps its base, size,
\* kind and position.
C16_SplitInPlace ==
    [][ (call'.op = "xalloc" /\ call'.outcome = "ok" /\ pc' = "run")
        => QueueSegs(vm') =
              ReplaceAt(QueueSegs(vm), IndexOf(vm.segqueue, call'.sel),
                        SplitOf(call'.selbase,
                                call'.selbase + call'.selsize,
                                call'.ret, call'.size, vm.quantum)) ]_vars

\* how many times record id is linked in the list s
Occurs(s, id) == Cardinality({n \in 1..Len(s) : s[n] = id})

\* record id is linked once in hash bucket b and in no other hash bucket
InBucketOnly(A, id, b) ==
    \A i \in HashIdx :
        Occurs(A.hashtable[i], id) = IF i = b THEN 1 ELSE 0

InNoBucket(A, id) == \A i \in HashIdx : Occurs(A.hashtable[i], id) = 0

InNoFreeList(A, id) == \A i \in FreeIdx : Occurs(A.freelist[i], id) = 0

LinkedRight(A, id) ==
    IF A.segs[id].type = SEGMENT_ALLOCATED
    THEN /\ InBucketOnly(A, id, hashbucket_for_addr(A.segs[id].base))
         /\ InNoFreeList(A, id)
    ELSE IF A.segs[id].type = SEGMENT_FREE
    THEN InNoBucket(A, id)
    ELSE InNoBucket(A, id) /\ InNoFreeList(A, id)

\* C17: after every operation each ALLOCATED segment is linked in exactly
\* one hash bucket, the one of index hash(base) mod table size for its
\* base, and in no free list; each FREE segment is in no hash bucket; each
\* SPAN segment is in neither a free list nor a hash bucket.
C17_HashLinks ==
    pc = "run" =>
        \A k \in 1..Len(vm.segqueue) : LinkedRight(vm, vm.segqueue[k])

\* C17 witness: a call split a free segment, while the arena already held
\* an allocated segment in another hash bucket
C17_TwoBucketsWitness ==
    /\ XallocOk
    /\ pc = "run"
    /\ vm.segs[call.sel].type = SEGMENT_FREE
    /\ \E k, l \in 1..Len(vm.segqueue) :
          /\ QueueSegs(vm)[k].type = SEGMENT_ALLOCATED
          /\ QueueSegs(vm)[l].type = SEGMENT_ALLOCATED
          /\ hashbucket_for_addr(QueueSegs(vm)[k].base)
                # hashbucket_for_addr(QueueSegs(vm)[l].base)

\* C18: when vmem_add and vmem_xalloc have returned, the records taken from
\* the pool and not released are exactly the records of the segment list,
\* as many as it has segments (vmem_xalloc released each of its two
\* pre-acquired records that it did not link), and no record was released
\* twice or while linked.
C18_RecordsBalanced ==
    (pc = "run" /\ Idle) =>
        /\ pool.taken = SeqElems(vm.segqueue)
        /\ Cardinality(pool.taken) = Len(vm.segqueue)
        /\ ~pool.twice

\* C18 witness: a vmem_xalloc that allocated the whole of the segment it
\* chose, so that it linked neither of its two records and released both
C18_BothReleasedWitness ==
    /\ XallocOk
    /\ pc = "run"
    /\ vm.segs[call.sel].type = SEGMENT_ALLOCATED
    /\ call.selbase = call.ret
    /\ call.selsize = call.size

\* C19: in the kernel build nfreesegs equals the number of records on
\* free_segs after any sequence of vmem_bootstrap, seg_alloc, seg_free and
\* refills (a refill raises both by the number of records of a page).
C19_CountIsListLength ==
    pc = "run" => pool.nfreesegs = Len(pool.free_segs)

====
